---- MODULE Spec2Model ----
(***************************************************************************)
(* A model of the xerr package: the classified error value XErr            *)
(* (error.go, error_type.go), the type-aware matcher As (error_as.go) and  *)
(* the panic-recovering ErrorHandler (xerr.go).                            *)
(*                                                                         *)
(* Text is a sequence of tokens (one-character strings, or a whole phrase  *)
(* where the phrase is never taken apart).  An error value lives in a heap *)
(* and is named by its index; 0 is nil.  A program counter of a captured   *)
(* stack is named by the function it lies in.                              *)
(***************************************************************************)
EXTENDS Integers, Sequences, FiniteSets, TLC

VARIABLES
    heap,      \* the error values allocated so far, by identity (index)
    created,   \* what each allocation was given (history, never updated)
    slotX,     \* a caller's variable "var target *XErr", 0 when nil
    slotM,     \* a caller's variable "var target *MyErr", 0 when nil
    last,      \* the most recent call on the error API and what it returned
    handler,   \* the ErrorHandler: its Config and the process it runs in
    reqs,      \* the requests being served, one worker per request
    call       \* the most recent call of a helper (codeSnippet, parseCodeLine,
               \* stackFrames) with its arguments and what it returned

vars == <<heap, created, slotX, slotM, last, handler, reqs, call>>
errVars == <<heap, created, slotX, slotM, last>>
httpVars == <<handler, reqs>>

-----------------------------------------------------------------------------
(* Bounds of the model.                                                    *)

\* how many error values are allocated in one run
MaxErrs == 3
\* how many categories a caller passes to IsType or As
MaxTypes == 2
\* how many fields of the error values a run decorates
MaxDecor == 2
\* how many requests are in flight at once
NumReqs == 2
\* how many lines the long source file has
LongLen == 40
\* how long a line handed to parseCodeLine is
MaxLine == 5
\* how deep a call stack handed to stackFrames is, below HandleError
MaxDepth == 4

-----------------------------------------------------------------------------
(* Text.                                                                   *)

Max(a, b) == IF a > b THEN a ELSE b
Min(a, b) == IF a < b THEN a ELSE b

\* strings.Contains
Contains(s, sub) ==
    \E i \in 0..(Len(s) - Len(sub)) : SubSeq(s, i + 1, i + Len(sub)) = sub

\* slices.Contains
SliceContains(xs, x) == \E i \in 1..Len(xs) : xs[i] = x

\* strings.Split(s, "\n")
RECURSIVE Split(_)
Split(s) ==
    IF \A i \in 1..Len(s) : s[i] # "\n"
    THEN <<s>>
    ELSE LET i == CHOOSE k \in 1..Len(s) :
                      s[k] = "\n" /\ \A j \in 1..(k - 1) : s[j] # "\n"
         IN  <<SubSeq(s, 1, i - 1)>> \o Split(SubSeq(s, i + 1, Len(s)))

Digits == <<"0", "1", "2", "3", "4", "5", "6", "7", "8", "9">>

\* the decimal text of n >= 0
RECURSIVE Itoa(_)
Itoa(n) == IF n < 10 THEN <<Digits[n + 1]>>
           ELSE Itoa(n \div 10) \o <<Digits[(n % 10) + 1]>>

RECURSIVE Spaces(_)
Spaces(n) == IF n <= 0 THEN <<>> ELSE <<" ">> \o Spaces(n - 1)

\* fmt's %4d: right-aligned in a field of four, never cut
Pad4(n) == Spaces(4 - Len(Itoa(n))) \o Itoa(n)

-----------------------------------------------------------------------------
(* The process: where its code lives and what the file system holds.       *)

\* xerrDir: the package is built from the module cache or from a local
\* checkout; panicnil: the GODEBUG setting that decides what recover()
\* returns after panic(nil).
Envs == [xerrDir : {"modcache", "local"}, panicnil : BOOLEAN]

GoRoot == <<"usr", "local", "go", "src">>
XerrRoot(env) ==
    IF env.xerrDir = "modcache"
    THEN <<"home", "u", "go", "pkg", "mod", "xerr@v1">>
    ELSE <<"work", "xerr">>
AppRoot == <<"work", "app">>

\* runtime.CallersFrames: the function, file and line of a program counter.
\* "cgo" stands for a location the runtime has no file for.
Resolve(env, pc) ==
    CASE pc = "runtime.Callers" ->
            [Function |-> pc, File |-> GoRoot \o <<"runtime", "extern.go">>, Line |-> 3]
      [] pc = "runtime.gopanic" ->
            [Function |-> pc, File |-> GoRoot \o <<"runtime", "panic.go">>, Line |-> 2]
      [] pc = "runtime.goexit" ->
            [Function |-> pc, File |-> GoRoot \o <<"runtime", "asm.s">>, Line |-> 1]
      [] pc = "http.HandlerFunc.ServeHTTP" ->
            [Function |-> pc, File |-> GoRoot \o <<"net", "http", "server.go">>, Line |-> 2]
      [] pc = "http.conn.serve" ->
            [Function |-> pc, File |-> GoRoot \o <<"net", "http", "server.go">>, Line |-> 3]
      [] pc = "xerr.New" ->
            [Function |-> pc, File |-> XerrRoot(env) \o <<"error.go">>, Line |-> 28]
      [] pc = "xerr.stackFrames" ->
            [Function |-> pc, File |-> XerrRoot(env) \o <<"xerr.go">>, Line |-> 179]
      [] pc = "xerr.HandleError" ->
            [Function |-> pc, File |-> XerrRoot(env) \o <<"xerr.go">>, Line |-> 90]
      [] pc = "xerr.HandlePanic" ->
            [Function |-> pc, File |-> XerrRoot(env) \o <<"xerr.go">>, Line |-> 116]
      [] pc = "xerr.Middleware.func1.1" ->
            [Function |-> pc, File |-> XerrRoot(env) \o <<"xerr.go">>, Line |-> 125]
      [] pc = "xerr.Middleware.func1" ->
            [Function |-> pc, File |-> XerrRoot(env) \o <<"xerr.go">>, Line |-> 128]
      [] pc = "xerr.MiddlewareFunc.func1.1" ->
            [Function |-> pc, File |-> XerrRoot(env) \o <<"xerr.go">>, Line |-> 137]
      [] pc = "xerr.MiddlewareFunc.func1" ->
            [Function |-> pc, File |-> XerrRoot(env) \o <<"xerr.go">>, Line |-> 140]
      [] pc = "main.handler" ->
            [Function |-> pc, File |-> AppRoot \o <<"main.go">>, Line |-> 2]
      [] pc = "main.doAction" ->
            [Function |-> pc, File |-> AppRoot \o <<"main.go">>, Line |-> 3]
      [] pc = "main.worker" ->
            [Function |-> pc, File |-> AppRoot \o <<"gone.go">>, Line |-> 1]
      [] OTHER ->
            [Function |-> pc, File |-> <<>>, Line |-> 0]

\* line k of long.go: most lines hold code, some are empty, some blank,
\* some hold "|"
LongLine(k) ==
    IF k % 5 = 0 THEN <<>>
    ELSE IF k % 7 = 0 THEN <<"x", "|", "y", "|">>
    ELSE IF k % 11 = 0 THEN <<" ">>
    ELSE <<"x">>

\* long.go, every line ended by a newline as gofmt leaves it
RECURSIVE LongData(_)
LongData(k) == IF k > LongLen THEN <<>> ELSE LongLine(k) \o <<"\n">> \o LongData(k + 1)

\* os.ReadFile: main.go (three lines, no newline at its end), long.go and
\* the empty empty.go are on disk, nothing else is (a deployed binary
\* seldom has its sources beside it).
ReadFile(file) ==
    IF file = AppRoot \o <<"main.go">>
    THEN [ok |-> TRUE, data |-> <<"a", "\n", "b", "|", "\n", "c">>]
    ELSE IF file = AppRoot \o <<"long.go">>
    THEN [ok |-> TRUE, data |-> LongData(1)]
    ELSE IF file = AppRoot \o <<"empty.go">>
    THEN [ok |-> TRUE, data |-> <<>>]
    ELSE [ok |-> FALSE, data |-> <<>>]

-----------------------------------------------------------------------------
(* Source snippets (xerr.go, codeSnippet).                                 *)

SnippetBefore == 15
SnippetAfter == 20

MsgDisabled == <<"Source code display disabled">>
MsgUnreadable == <<"Could not read source file">>

\* a line that takes the index for the line number when it sets the marker
SnippetLine_MarkIndex(lines, i, line) ==
    (IF i = line THEN <<">", ">", " ">> ELSE <<" ", " ", " ">>)
        \o Pad4(i + 1) \o <<" ", "|", " ">> \o lines[i + 1] \o <<"\n">>

\* one line of the snippet: fmt.Fprintf(&b, "%s%4d | %s\n", prefix, i+1, lines[i]),
\* i counted from 0 as in the source
SnippetLine(lines, i, line) ==
    (IF i + 1 = line THEN <<">", ">", " ">> ELSE <<" ", " ", " ">>)
        \o Pad4(i + 1) \o <<" ", "|", " ">> \o lines[i + 1] \o <<"\n">>

\* the loop "for i := start; i < end; i++"
RECURSIVE SnippetLoop(_, _, _, _)
SnippetLoop(lines, i, end, line) ==
    IF i < end
    THEN SnippetLine(lines, i, line) \o SnippetLoop(lines, i + 1, end, line)
    ELSE <<>>

\* a window that starts one line earlier
SnippetWindow_OneEarlier(file, line) ==
    LET rd == ReadFile(file) IN
    IF ~rd.ok THEN MsgUnreadable
    ELSE LET lines == Split(rd.data)
             start == Max(line - SnippetBefore - 1, 0)
             end   == Min(line + SnippetAfter, Len(lines))
         IN  SnippetLoop(lines, start, end, line)

\* codeSnippet from the file read on: the window around the line
SnippetWindow(file, line) ==
    LET rd == ReadFile(file) IN
    IF ~rd.ok THEN MsgUnreadable
    ELSE LET lines == Split(rd.data)
             start == Max(line - SnippetBefore, 0)
             end   == Min(line + SnippetAfter, Len(lines))
         IN  SnippetLoop(lines, start, end, line)

\* a codeSnippet that does not look at ShowSourceCode
codeSnippet_NoCheck(config, file, line) == SnippetWindow(file, line)

\* (eh *ErrorHandler) codeSnippet
codeSnippet(config, file, line) ==
    IF ~config.ShowSourceCode THEN MsgDisabled ELSE SnippetWindow(file, line)

\* the files a call of codeSnippet reads, in order
SnippetReads(config, file, line) ==
    IF ~config.ShowSourceCode THEN <<>> ELSE <<file>>

\* the package-level codeSnippet that XErr.StackTrace calls
codeSnippetPkg(file, line) == SnippetWindow(file, line)

-----------------------------------------------------------------------------
(* Stack capture.                                                          *)

\* runtime.Callers(skip, pcs) with len(pcs) = max, on a goroutine whose call
\* stack, innermost first, is stack (stack[1] is runtime.Callers itself)
Callers(skip, max, stack) == SubSeq(stack, skip + 1, Min(Len(stack), skip + max))

\* a file path as the text the filter reads
RECURSIVE PathText(_)
PathText(file) ==
    IF file = <<>> THEN <<>> ELSE <<"/", Head(file)>> \o PathText(Tail(file))

\* the frames stackFrames drops: standard library and module cache
Filtered(file) ==
    \/ Contains(PathText(file), <<"/", "go", "/", "src", "/">>)
    \/ Contains(PathText(file), <<"/", "pkg", "/", "mod", "/">>)

ZeroFrame == [Function |-> "", File |-> <<>>, Line |-> 0]

\* a loop that ends at the first frame it drops
RECURSIVE FramesLoop_StopAtFiltered(_, _, _, _, _)
FramesLoop_StopAtFiltered(config, env, pcs, i, frames) ==
    LET fr   == IF i <= Len(pcs) THEN Resolve(env, pcs[i]) ELSE ZeroFrame
        more == i < Len(pcs)
    IN  IF fr.File # <<>>
        THEN IF Filtered(fr.File)
             THEN frames
             ELSE LET kept == Append(frames,
                                [Function |-> fr.Function, File |-> fr.File,
                                 Line |-> fr.Line,
                                 Snippet |-> codeSnippet(config, fr.File, fr.Line)])
                  IN  IF Len(kept) >= config.MaxFrames THEN kept
                      ELSE IF ~more THEN kept
                      ELSE FramesLoop_StopAtFiltered(config, env, pcs, i + 1, kept)
        ELSE IF ~more THEN frames
             ELSE FramesLoop_StopAtFiltered(config, env, pcs, i + 1, frames)

\* the loop of stackFrames over iter.Next(), frame i of pcs
RECURSIVE FramesLoop(_, _, _, _, _)
FramesLoop(config, env, pcs, i, frames) ==
    LET fr   == IF i <= Len(pcs) THEN Resolve(env, pcs[i]) ELSE ZeroFrame
        more == i < Len(pcs)
    IN  IF fr.File # <<>>
        THEN IF Filtered(fr.File)
             THEN IF ~more THEN frames
                  ELSE FramesLoop(config, env, pcs, i + 1, frames)
             ELSE LET kept == Append(frames,
                                [Function |-> fr.Function, File |-> fr.File,
                                 Line |-> fr.Line,
                                 Snippet |-> codeSnippet(config, fr.File, fr.Line)])
                  IN  IF Len(kept) >= config.MaxFrames THEN kept
                      ELSE IF ~more THEN kept
                      ELSE FramesLoop(config, env, pcs, i + 1, kept)
        ELSE IF ~more THEN frames
             ELSE FramesLoop(config, env, pcs, i + 1, frames)

\* make([]uintptr, n) panics with "makeslice: len out of range" when n is
\* negative
MakePanics(n) == n < 0

\* (eh *ErrorHandler) stackFrames, called on a goroutine whose call stack is
\* stack (where make does not panic)
stackFrames(config, env, stack) ==
    FramesLoop(config, env,
               Callers(config.SkipFrames + 1, config.MaxFrames, stack), 1, <<>>)

-----------------------------------------------------------------------------
(* Error values (error.go).                                                *)

\* the built-in category, and one a caller defines outside the package
ErrUnknown == 0
TypeNotFound == 2000
ErrorTypes == {ErrUnknown, TypeNotFound}

\* len of the buffer New hands to runtime.Callers
StackCap == 32

\* what the application passes to New: a message and its category
NewArgs ==
    { [msg |-> <<"a">>, t |-> ErrUnknown],
      [msg |-> <<"b", "c">>, t |-> TypeNotFound] }
PublicMsgs == {<<"p">>}
NoDetails == <<>>
DetailsMaps == {<< <<"email", "required">> >>}

\* the call stacks New is called on: the callers of New, innermost first
CallSites == { <<"main.doAction", "cgo", "main.worker", "runtime.goexit">> }

\* the category lists a caller passes as types...
TypeLists == UNION {[1..n -> ErrorTypes] : n \in 0..MaxTypes}

\* An error value.  kind is its dynamic type: "XErr" (*XErr), "wrapError"
\* (fmt.Errorf with %w) or "MyErr" (an error type of the application, or
\* errors.New's: one without a cause).  Only an XErr uses Type,
\* PublicMessage, stack and Details.
Obj(kind, t, msg, err, stack) ==
    [kind |-> kind, Type |-> t, Message |-> msg, PublicMessage |-> <<>>,
     Err |-> err, stack |-> stack, Details |-> NoDetails]

\* a New that skips the capture primitive only
New_SkipOne(msg, t, err, callers) ==
    Obj("XErr", t, msg, err,
        Callers(1, StackCap, <<"runtime.Callers", "xerr.New">> \o callers))

\* New(msg, t, err), called from the call site callers
New(msg, t, err, callers) ==
    Obj("XErr", t, msg, err,
        Callers(2, StackCap, <<"runtime.Callers", "xerr.New">> \o callers))

\* a WithPublicMessage that writes the developer message as well
WithPublicMessage_Clobber(x, msg) == [x EXCEPT !.PublicMessage = msg, !.Message = msg]

\* (e *XErr) WithPublicMessage, on the value x
WithPublicMessage(x, msg) == [x EXCEPT !.PublicMessage = msg]

\* (e *XErr) WithDetails, on the value x
WithDetails(x, details) == [x EXCEPT !.Details = details]

Sep == <<" ", "-", " ">>

\* an Error that formats the cause's own message instead of its text
Error_Shallow(h, e) ==
    IF h[e].kind = "XErr" /\ h[e].Err # 0
    THEN h[e].Message \o Sep \o h[h[e].Err].Message
    ELSE h[e].Message

\* The text of an error: (e *XErr) Error for an XErr, which formats its
\* cause with %v and so asks the cause for its own text; the stored text
\* for the others (fmt.Errorf builds its text when it is called).
RECURSIVE Error(_, _)
Error(h, e) ==
    IF h[e].kind = "XErr"
    THEN IF h[e].Err # 0
         THEN h[e].Message \o Sep \o Error(h, h[e].Err)
         ELSE h[e].Message
    ELSE h[e].Message

\* an XErr without its Unwrap method
Unwrap_Missing(h, e) == IF h[e].kind = "wrapError" THEN h[e].Err ELSE 0

\* Unwrap: (e *XErr) Unwrap returns e.Err; a wrapError returns what it
\* wraps; the other types have no Unwrap method, which walks as nil
Unwrap(h, e) ==
    IF h[e].kind \in {"XErr", "wrapError"} THEN h[e].Err ELSE 0

\* fmt.Errorf(prefix + "%w", err)
Errorf(h, prefix, err) ==
    Obj("wrapError", ErrUnknown, prefix \o Error(h, err), err, <<>>)

\* an IsType that looks at the argument list before the receiver
IsType_ListFirst(h, e, types) ==
    IF Len(types) = 0 THEN TRUE
    ELSE IF e = 0 THEN FALSE
    ELSE SliceContains(types, h[e].Type)

\* (err *XErr) IsType, e = 0 for the nil receiver
IsType(h, e, types) ==
    IF e = 0 THEN FALSE
    ELSE IF Len(types) = 0 THEN TRUE
    ELSE SliceContains(types, h[e].Type)

\* (e *XErr) StackTrace
RECURSIVE TraceLoop(_, _, _, _, _)
TraceLoop(env, pcs, i, showSource, result) ==
    LET fr   == IF i <= Len(pcs) THEN Resolve(env, pcs[i]) ELSE ZeroFrame
        more == i < Len(pcs)
        next == IF fr.File # <<>>
                THEN Append(result,
                       [Function |-> fr.Function, File |-> fr.File, Line |-> fr.Line,
                        Snippet |-> IF showSource
                                    THEN codeSnippetPkg(fr.File, fr.Line)
                                    ELSE <<>>])
                ELSE result
    IN  IF ~more THEN next ELSE TraceLoop(env, pcs, i + 1, showSource, next)

StackTrace(h, env, e, showSource) == TraceLoop(env, h[e].stack, 1, showSource, <<>>)

-----------------------------------------------------------------------------
(* The matcher (error_as.go).                                              *)

\* errors.As(err, target) for a target of type *kind: the first error of
\* the chain whose dynamic type is kind, 0 when there is none
RECURSIVE ErrorsAs(_, _, _)
ErrorsAs(h, err, kind) ==
    IF err = 0 THEN 0
    ELSE IF h[err].kind = kind THEN err
    ELSE ErrorsAs(h, Unwrap(h, err), kind)

\* an As that forgets the category check: errors.As alone
As_NoFilter(h, err, kind, types, before) ==
    IF err = 0 \/ ErrorsAs(h, err, kind) = 0
    THEN [ok |-> FALSE, slot |-> before]
    ELSE [ok |-> TRUE, slot |-> ErrorsAs(h, err, kind)]

\* an As that validates before it assigns: the target keeps its old value
\* when the category does not match
As_Strict(h, err, kind, types, before) ==
    IF err = 0 \/ ErrorsAs(h, err, kind) = 0
    THEN [ok |-> FALSE, slot |-> before]
    ELSE IF Len(types) > 0
         THEN LET xe == ErrorsAs(h, err, "XErr") IN
              IF xe # 0 /\ SliceContains(types, h[xe].Type)
              THEN [ok |-> TRUE, slot |-> ErrorsAs(h, err, kind)]
              ELSE [ok |-> FALSE, slot |-> before]
         ELSE [ok |-> TRUE, slot |-> ErrorsAs(h, err, kind)]

\* As(err, target, types...): what it returns (ok) and what the target
\* variable holds afterwards (slot), given what it held before
As(h, err, kind, types, before) ==
    IF err = 0 THEN [ok |-> FALSE, slot |-> before]
    ELSE LET found == ErrorsAs(h, err, kind) IN
         IF found = 0 THEN [ok |-> FALSE, slot |-> before]
         ELSE IF Len(types) > 0
              THEN LET xe == ErrorsAs(h, err, "XErr") IN
                   IF xe # 0
                   THEN [ok |-> SliceContains(types, h[xe].Type), slot |-> found]
                   ELSE [ok |-> FALSE, slot |-> found]
              ELSE [ok |-> TRUE, slot |-> found]

-----------------------------------------------------------------------------
(* The ErrorHandler and its requests (xerr.go): the state.                 *)

\* DefaultConfig()
DefaultConfig ==
    [ShowSourceCode |-> TRUE, MaxFrames |-> 50, SkipFrames |-> 2]

\* a configuration of the application's own (the README's, with a small cap)
CustomConfig ==
    [ShowSourceCode |-> FALSE, MaxFrames |-> 3, SkipFrames |-> 3]

\* a configuration with a MaxFrames below zero: Config is a plain struct and
\* New takes it as it is
NegativeConfig ==
    [ShowSourceCode |-> TRUE, MaxFrames |-> -1, SkipFrames |-> 2]

Configs == {CustomConfig, NegativeConfig}

\* New(config) of xerr.go, in the process env; given = FALSE is New(nil)
NewErrorHandler(given, config, env) ==
    [config |-> IF given THEN config ELSE DefaultConfig, env |-> env]

Reqs == 1..NumReqs

\* the three ways a handler is put under recovery
Entries == {"Middleware", "MiddlewareFunc", "HandlePanic"}

\* What a handler panics with: a value and its text under %v.  panic(nil)
\* is a panic too.
NoPayload == [kind |-> "none", text |-> <<>>]
NilPayload == [kind |-> "nil", text |-> <<"<", "nil", ">">>]
PanicNilError == [kind |-> "PanicNilError", text |-> <<"panic called with nil argument">>]
Payloads ==
    { [kind |-> "string", text |-> <<"boom">>],
      [kind |-> "string", text |-> <<"a", "<", "b">>],
      NilPayload }

\* fmt.Sprintf("%v", v)
Sprint(v) == v.text

\* One request and its worker.  called counts the calls of the wrapped
\* handler; sink is the response sink as the sequence of operations made on
\* it, each marked with who made it.
IdleReq ==
    [pc |-> "idle", entry |-> "", called |-> 0, panicking |-> FALSE,
     payload |-> NoPayload, recovered |-> FALSE, escaped |-> FALSE,
     heCalls |-> 0, heArg |-> NoPayload, data |-> [Error |-> <<>>, Frames |-> <<>>],
     tplCalls |-> 0, renderErr |-> <<>>, sink |-> <<>>]

\* the operations of the response sink
SetHeaderOp(by, key, val) ==
    [op |-> "Header.Set", by |-> by, key |-> key, val |-> val, code |-> 0,
     text |-> <<>>, frames |-> <<>>]
WriteHeaderOp(by, code) ==
    [op |-> "WriteHeader", by |-> by, key |-> "", val |-> "", code |-> code,
     text |-> <<>>, frames |-> <<>>]
WriteOp(by, text, frames) ==
    [op |-> "Write", by |-> by, key |-> "", val |-> "", code |-> 0,
     text |-> text, frames |-> frames]

\* What the transport makes of the operations (net/http and httptest's
\* recorder alike): the first status written stands, a Write before any
\* status means 200, the body is what was written, in order.
Code(sink) ==
    LET first == {i \in 1..Len(sink) : sink[i].op \in {"WriteHeader", "Write"}}
    IN  IF first = {} THEN 200
        ELSE LET i == CHOOSE k \in first : \A j \in first : k <= j
             IN  IF sink[i].op = "WriteHeader" THEN sink[i].code ELSE 200

RECURSIVE Body(_)
Body(sink) ==
    IF sink = <<>> THEN <<>>
    ELSE (IF Head(sink).op = "Write" THEN Head(sink).text ELSE <<>>) \o Body(Tail(sink))

\* html/template's escaping of a string in HTML text
EscapeToken(c) ==
    CASE c = "<" -> "&lt;"
      [] c = ">" -> "&gt;"
      [] c = "&" -> "&amp;"
      [] c = "'" -> "&#39;"
      [] c = "\"" -> "&#34;"
      [] OTHER -> c
HTMLEscape(s) == [i \in 1..Len(s) |-> EscapeToken(s[i])]

\* The page error.html renders from the report: the error text, escaped,
\* inside its markup, and the frames.
PageHead == <<"<h1>">>
PageTail == <<"</h1>">>
RenderPage(data) == PageHead \o HTMLEscape(data.Error) \o PageTail

\* why a rendering fails
RenderErrors == { <<"template: no such field">> }

\* a fallback that leaves the reason out
FallbackText_NoReason(err, renderErr) == <<"Error: ">> \o Sprint(err)

\* fmt.Fprintf(w, "Error: %v\n\nTemplate rendering failed: %v", err, renderErr)
FallbackText(err, renderErr) ==
    <<"Error: ">> \o Sprint(err) \o <<"\n\nTemplate rendering failed: ">> \o renderErr

\* The call stack of a worker inside runtime.Callers, innermost first, when
\* its handler main.handler has panicked and the recovery of the entry has
\* called HandleError.
WorkerStack(entry) ==
    <<"runtime.Callers", "xerr.stackFrames", "xerr.HandleError">> \o
    CASE entry = "Middleware" ->
            <<"xerr.Middleware.func1.1", "runtime.gopanic", "main.handler",
              "http.HandlerFunc.ServeHTTP", "xerr.Middleware.func1",
              "http.HandlerFunc.ServeHTTP", "http.conn.serve", "runtime.goexit">>
      [] entry = "MiddlewareFunc" ->
            <<"xerr.MiddlewareFunc.func1.1", "runtime.gopanic", "main.handler",
              "xerr.MiddlewareFunc.func1",
              "http.HandlerFunc.ServeHTTP", "http.conn.serve", "runtime.goexit">>
      [] OTHER ->
            <<"xerr.HandlePanic", "runtime.gopanic", "main.handler",
              "http.HandlerFunc.ServeHTTP", "http.conn.serve", "runtime.goexit">>

\* Whether the recover() of the entry is called by the deferred function
\* itself, the only place where it stops a panic: the closures of
\* Middleware and MiddlewareFunc, and HandlePanic when it is the function
\* deferred.
RecoversIn(entry) == entry \in {"Middleware", "MiddlewareFunc", "HandlePanic"}

\* a recovery that reports even when nothing panicked
Recovered_Eager(env, entry, panicking, payload) ==
    IF ~panicking THEN PanicNilError ELSE payload

\* rec := recover() in the deferred function: nil when the worker is not
\* panicking; the payload when it is, where panic(nil) reads as a
\* *runtime.PanicNilError, or as nil under GODEBUG=panicnil=1
Recovered(env, entry, panicking, payload) ==
    IF ~panicking \/ ~RecoversIn(entry) THEN NoPayload
    ELSE IF payload.kind = "nil"
         THEN IF env.panicnil THEN NoPayload ELSE PanicNilError
         ELSE payload

-----------------------------------------------------------------------------
(* The error API as a state machine: SpecErr.                              *)

\* no helper has been called yet
NoHelperCall == [op |-> ""]

NoCall ==
    [op |-> "", recv |-> 0, types |-> <<>>, kind |-> "", show |-> FALSE,
     ok |-> FALSE, id |-> 0, text |-> <<>>, frames |-> <<>>, before |-> 0]

ErrEnv == [xerrDir |-> "local", panicnil |-> FALSE]

Ids == 1..Len(heap)
XErrs == {e \in Ids : heap[e].kind = "XErr"}

InitErr ==
    /\ heap = <<>>
    /\ created = <<>>
    /\ slotX = 0
    /\ slotM = 0
    /\ last = NoCall
    /\ handler = NewErrorHandler(FALSE, DefaultConfig, ErrEnv)
    /\ reqs = [r \in Reqs |-> IdleReq]
    /\ call = NoHelperCall

\* created keeps what the constructor was given (msg, t, err) and the
\* value it made
Alloc(x, op, msg, t, err) ==
    /\ Len(heap) < MaxErrs
    /\ heap' = Append(heap, x)
    /\ created' = Append(created, [msg |-> msg, t |-> t, err |-> err, made |-> x])
    /\ last' = [NoCall EXCEPT !.op = op, !.id = Len(heap) + 1]
    /\ UNCHANGED <<slotX, slotM, httpVars, call>>

\* err := xerr.New(msg, t, cause)
DoNew ==
    \E a \in NewArgs, err \in {0} \cup Ids, callers \in CallSites :
        Alloc(New(a.msg, a.t, err, callers), "New", a.msg, a.t, err)

\* &MyErr{"y"}, or errors.New("y")
DoNewMyErr ==
    Alloc(Obj("MyErr", ErrUnknown, <<"y">>, 0, <<>>), "MyErr", <<"y">>, ErrUnknown, 0)

\* fmt.Errorf("w: %w", err)
DoErrorf ==
    \E err \in Ids :
        Alloc(Errorf(heap, <<"w", ":", " ">>, err), "Errorf",
              <<"w", ":", " ">>, ErrUnknown, err)

\* the decorated fields of a run are capped at MaxDecor; setting a field
\* again is always possible
Decorated ==
    Cardinality({e \in XErrs : heap[e].PublicMessage # <<>>})
        + Cardinality({e \in XErrs : heap[e].Details # NoDetails})
CanDecorate(isSet) == isSet \/ Decorated < MaxDecor

DoWithPublicMessage ==
    \E e \in XErrs, msg \in PublicMsgs :
        /\ CanDecorate(heap[e].PublicMessage # <<>>)
        /\ heap' = [heap EXCEPT ![e] = WithPublicMessage(heap[e], msg)]
        /\ last' = [NoCall EXCEPT !.op = "WithPublicMessage", !.recv = e, !.id = e]
        /\ UNCHANGED <<created, slotX, slotM, httpVars, call>>

DoWithDetails ==
    \E e \in XErrs, d \in DetailsMaps :
        /\ CanDecorate(heap[e].Details # NoDetails)
        /\ heap' = [heap EXCEPT ![e] = WithDetails(heap[e], d)]
        /\ last' = [NoCall EXCEPT !.op = "WithDetails", !.recv = e, !.id = e]
        /\ UNCHANGED <<created, slotX, slotM, httpVars, call>>

DoError ==
    \E e \in XErrs :
        /\ last' = [NoCall EXCEPT !.op = "Error", !.recv = e, !.text = Error(heap, e)]
        /\ UNCHANGED <<heap, created, slotX, slotM, httpVars, call>>

DoUnwrap ==
    \E e \in XErrs :
        /\ last' = [NoCall EXCEPT !.op = "Unwrap", !.recv = e, !.id = Unwrap(heap, e)]
        /\ UNCHANGED <<heap, created, slotX, slotM, httpVars, call>>

DoIsType ==
    \E e \in {0} \cup XErrs, types \in TypeLists :
        /\ last' = [NoCall EXCEPT !.op = "IsType", !.recv = e, !.types = types,
                                  !.ok = IsType(heap, e, types)]
        /\ UNCHANGED <<heap, created, slotX, slotM, httpVars, call>>

DoStackTrace ==
    \E e \in XErrs, show \in BOOLEAN :
        /\ last' = [NoCall EXCEPT !.op = "StackTrace", !.recv = e, !.show = show,
                                  !.frames = StackTrace(heap, handler.env, e, show)]
        /\ UNCHANGED <<heap, created, slotX, slotM, httpVars, call>>

\* var xe *XErr; errors.As(err, &xe): the chain walk of the standard
\* library into a fresh variable
DoErrorsAs ==
    \E err \in Ids :
        /\ last' = [NoCall EXCEPT !.op = "errors.As", !.recv = err,
                                  !.id = ErrorsAs(heap, err, "XErr")]
        /\ UNCHANGED <<heap, created, slotX, slotM, httpVars, call>>

\* ok := xerr.As(err, &target, types...), target one of the two variables
DoAs ==
    \E err \in {0} \cup Ids, kind \in {"XErr", "MyErr"}, types \in TypeLists :
        LET before == IF kind = "XErr" THEN slotX ELSE slotM
            res    == As(heap, err, kind, types, before)
        IN  /\ slotX' = IF kind = "XErr" THEN res.slot ELSE slotX
            /\ slotM' = IF kind = "MyErr" THEN res.slot ELSE slotM
            /\ last' = [NoCall EXCEPT !.op = "As", !.recv = err, !.kind = kind,
                                      !.types = types, !.ok = res.ok,
                                      !.before = before]
            /\ UNCHANGED <<heap, created, httpVars, call>>

\* the error value and its methods
NextErr ==
    \/ DoNew
    \/ DoNewMyErr
    \/ DoErrorf
    \/ DoWithPublicMessage
    \/ DoWithDetails
    \/ DoError
    \/ DoUnwrap
    \/ DoIsType
    \/ DoStackTrace
    \/ DoErrorsAs

SpecErr == InitErr /\ [][NextErr]_vars

\* the matcher on the error values
NextAs ==
    \/ DoNew
    \/ DoNewMyErr
    \/ DoErrorf
    \/ DoAs

SpecAs == InitErr /\ [][NextAs]_vars

-----------------------------------------------------------------------------
(* What a run was given: the chains as the constructors were handed them.  *)

\* e, the cause it was constructed with, that one's cause, ...
RECURSIVE GivenChain(_)
GivenChain(e) == IF e = 0 THEN <<>> ELSE <<e>> \o GivenChain(created[e].err)

GivenKind(e) == created[e].made.kind

\* the outermost error of dynamic type kind on the chain from e, 0 if none
FirstGiven(e, kind) ==
    LET ch  == GivenChain(e)
        hit == {i \in 1..Len(ch) : GivenKind(ch[i]) = kind}
    IN  IF hit = {} THEN 0 ELSE ch[CHOOSE i \in hit : \A j \in hit : i <= j]

Members(types) == {types[i] : i \in 1..Len(types)}

\* the messages of a chain joined with " - "
RECURSIVE Joined(_)
Joined(msgs) ==
    IF Len(msgs) = 1 THEN msgs[1] ELSE msgs[1] \o Sep \o Joined(Tail(msgs))

\* the chain from e down to the first error that is no XErr or has no cause
RECURSIVE XErrPrefix(_)
XErrPrefix(e) ==
    IF GivenKind(e) = "XErr" /\ created[e].err # 0
    THEN <<e>> \o XErrPrefix(created[e].err)
    ELSE <<e>>

\* the message New was given for an XErr, the whole text of another error
GivenText(e) ==
    IF GivenKind(e) = "XErr" THEN created[e].msg ELSE created[e].made.Message

-----------------------------------------------------------------------------
(* Claims on the error value, under SpecErr.                               *)

\* C7: IsType on a nil *XErr is false for every argument list, the empty
\* one included; on a non-nil XErr of category C it is true for the empty
\* list, true for every list that contains C and false for every non-empty
\* list that does not.
C7_IsType ==
    last.op = "IsType" =>
        /\ last.recv = 0 => ~last.ok
        /\ last.recv # 0 /\ last.types = <<>> => last.ok
        /\ last.recv # 0 /\ last.types # <<>> =>
               (last.ok <=> created[last.recv].t \in Members(last.types))

\* C7 witness: a category found at the second place of a two-element list.
C7_Witness ==
    /\ last.op = "IsType" /\ last.recv # 0 /\ last.ok
    /\ Len(last.types) = 2
    /\ last.types[1] # created[last.recv].t
    /\ last.types[2] = created[last.recv].t

\* C8: the text of New(msg, t, nil) is msg; the text of New(msg, t, cause) is
\* msg, " - " and the text of the cause, so a chain of k nested XErrs reads
\* m1 - m2 - ... - mk (followed by the text of a cause that is no XErr).
C8_ErrorText ==
    last.op = "Error" =>
        /\ created[last.recv].err = 0 => last.text = created[last.recv].msg
        /\ LET ch == XErrPrefix(last.recv)
           IN  last.text = Joined([i \in 1..Len(ch) |-> GivenText(ch[i])])

\* C8 witness: the text of an XErr over an XErr over an XErr without cause.
C8_Witness ==
    /\ last.op = "Error"
    /\ Len(XErrPrefix(last.recv)) = 3
    /\ \A i \in 1..3 : GivenKind(XErrPrefix(last.recv)[i]) = "XErr"
    /\ Len(last.text) > Len(created[last.recv].msg) + 3

\* n times Unwrap from e
RECURSIVE UnwrapN(_, _, _)
UnwrapN(h, e, n) ==
    IF n = 0 \/ e = 0 THEN e ELSE UnwrapN(h, Unwrap(h, e), n - 1)

\* C9: Unwrap on an XErr returns the cause New was given (nil without one),
\* and walking the chain from an error that wraps an XErr in N layers
\* reaches that very XErr, its category the one it was created with.
C9_Unwrap ==
    /\ last.op = "Unwrap" => last.id = created[last.recv].err
    /\ \A e \in Ids :
          LET ch == GivenChain(e)
          IN  \A n \in 1..Len(ch) :
                  /\ UnwrapN(heap, e, n - 1) = ch[n]
                  /\ heap[ch[n]].Type = created[ch[n]].t
    /\ last.op = "errors.As" =>
          /\ last.id = FirstGiven(last.recv, "XErr")
          /\ last.id # 0 => heap[last.id].Type = created[last.id].t

\* C9 witness: errors.As through two fmt.Errorf layers finds the XErr that
\* the inner layer wraps.
C9_Witness ==
    /\ last.op = "errors.As"
    /\ GivenKind(last.recv) = "wrapError"
    /\ GivenKind(created[last.recv].err) = "wrapError"
    /\ last.id = created[created[last.recv].err].err
    /\ GivenKind(last.id) = "XErr"
    /\ created[last.id].t = TypeNotFound

C10_Kept ==
    \A e \in XErrs :
        /\ heap[e].stack = created[e].made.stack
        /\ heap[e].Type = created[e].t
        /\ heap[e].Message = created[e].msg
        /\ heap[e].Err = created[e].err

C10_Step ==
    /\ \A e \in Ids :
          /\ heap'[e].stack = heap[e].stack
          /\ heap'[e].Type = heap[e].Type
          /\ heap'[e].Message = heap[e].Message
          /\ heap'[e].Err = heap[e].Err
          /\ last'.op = "WithPublicMessage" =>
                /\ heap'[e].Details = heap[e].Details
                /\ e # last'.recv => heap'[e] = heap[e]
          /\ last'.op = "WithDetails" =>
                /\ heap'[e].PublicMessage = heap[e].PublicMessage
                /\ e # last'.recv => heap'[e] = heap[e]
    /\ last'.op \in {"WithPublicMessage", "WithDetails"} => last'.id = last'.recv
    /\ last'.op \in {"Error", "Unwrap", "IsType", "StackTrace"} => heap' = heap
    /\ (/\ last.op = "StackTrace" /\ last'.op = "StackTrace"
        /\ last'.recv = last.recv /\ last'.show = last.show)
           => last'.frames = last.frames

\* C10: whatever is called on an XErr (WithPublicMessage, WithDetails, Error,
\* Unwrap, IsType, StackTrace), its stack, category, message and cause stay
\* what New set; WithPublicMessage changes PublicMessage only and WithDetails
\* changes Details only, each returning the instance it was called on; a
\* repeated StackTrace returns the same frames.
C10_Frame == []C10_Kept /\ [][C10_Step]_vars

\* C10 witness: a stack trace taken of an error after both decorations, its
\* fields still those New set.
C10_Witness ==
    /\ last.op = "StackTrace" /\ last.show
    /\ heap[last.recv].PublicMessage # <<>>
    /\ heap[last.recv].Details # NoDetails
    /\ heap[last.recv].Err # 0
    /\ Len(last.frames) > 0

-----------------------------------------------------------------------------
(* Claims on the matcher, under SpecAs.                                    *)

\* the rule of As: a non-nil err, an error on its chain that the target
\* can hold, and no categories given or the category of the outermost XErr
\* of the chain among them
AsRule ==
    /\ last.recv # 0
    /\ FirstGiven(last.recv, last.kind) # 0
    /\ \/ last.types = <<>>
       \/ /\ FirstGiven(last.recv, "XErr") # 0
          /\ created[FirstGiven(last.recv, "XErr")].t \in Members(last.types)

C6_AsSlot ==
    (last.op = "As" /\ last.kind = "XErr") =>
        LET xe == IF last.recv = 0 THEN 0 ELSE FirstGiven(last.recv, "XErr")
        IN  /\ xe = 0 => slotX = last.before
            /\ (/\ xe # 0 /\ last.types # <<>>
                /\ created[xe].t \notin Members(last.types))
                   => /\ ~last.ok
                      /\ slotX = xe
                      /\ heap[slotX].Type = created[xe].t

\* C6 witness: a target that held one XErr holds another after an As that
\* returned false for the category.
C6_Witness ==
    /\ last.op = "As" /\ last.kind = "XErr" /\ ~last.ok
    /\ last.types # <<>>
    /\ last.before # 0 /\ slotX # 0 /\ slotX # last.before
    /\ GivenKind(last.recv) = "wrapError"

-----------------------------------------------------------------------------
(* Serving requests under recovery (xerr.go): Spec.                        *)

Init ==
    /\ heap = <<>>
    /\ created = <<>>
    /\ slotX = 0
    /\ slotM = 0
    /\ last = NoCall
    /\ \E given \in BOOLEAN, config \in Configs, env \in Envs :
           handler = NewErrorHandler(given, config, env)
    /\ reqs = [r \in Reqs |-> IdleReq]
    /\ call = NoHelperCall

Upd(r, rec) ==
    /\ reqs' = [reqs EXCEPT ![r] = rec]
    /\ UNCHANGED <<handler, errVars, call>>

\* A request reaches its entry point: the deferred recovery is registered
\* and the wrapped handler is called (next.ServeHTTP(w, r), next(w, r), or
\* the body of the handler that deferred HandlePanic).
Serve(r) ==
    \E entry \in Entries :
        /\ reqs[r].pc = "idle"
        /\ Upd(r, [IdleReq EXCEPT !.pc = "next", !.entry = entry, !.called = 1])

\* the wrapped handler writes its response: w.Write("ok")
NextWrites(r) ==
    /\ reqs[r].pc = "next"
    /\ reqs[r].sink = <<>>
    /\ Upd(r, [reqs[r] EXCEPT !.sink =
                  <<WriteHeaderOp("next", 200), WriteOp("next", <<"ok">>, <<>>)>>])

\* the wrapped handler returns
NextReturns(r) ==
    /\ reqs[r].pc = "next"
    /\ Upd(r, [reqs[r] EXCEPT !.pc = "deferred"])

\* the wrapped handler panics with v
NextPanics(r) ==
    \E v \in Payloads :
        /\ reqs[r].pc = "next"
        /\ Upd(r, [reqs[r] EXCEPT !.pc = "deferred", !.panicking = TRUE,
                                  !.payload = v])

\* HandleError up to its first operation on the sink: the report is built.
\* When the make of stackFrames panics, HandleError has done nothing yet and
\* the new panic leaves the deferred function for the caller of the entry.
BuildReport(q, err) ==
    IF MakePanics(handler.config.MaxFrames)
    THEN [q EXCEPT !.pc = "done", !.heCalls = @ + 1, !.heArg = err,
                   !.escaped = TRUE]
    ELSE [q EXCEPT !.pc = "header", !.heCalls = @ + 1, !.heArg = err,
                   !.data = [Error  |-> Sprint(err),
                             Frames |-> stackFrames(handler.config, handler.env,
                                                    WorkerStack(q.entry))]]

\* The deferred function runs: if rec := recover(); rec != nil it calls
\* HandleError(w, r, rec); otherwise it returns, and so does the entry.  A
\* panic that recover() did not stop would go on to the caller.
Recover(r) ==
    LET q   == reqs[r]
        rec == Recovered(handler.env, q.entry, q.panicking, q.payload)
        q1  == [q EXCEPT !.recovered = q.panicking /\ RecoversIn(q.entry)]
    IN  /\ q.pc = "deferred"
        /\ Upd(r, IF rec # NoPayload
                  THEN BuildReport(q1, rec)
                  ELSE [q1 EXCEPT !.pc = "done",
                                  !.escaped = q.panicking /\ ~q1.recovered])

\* w.Header().Set("Content-Type", "text/html; charset=utf-8")
SetHeader(r) ==
    /\ reqs[r].pc = "header"
    /\ Upd(r, [reqs[r] EXCEPT !.pc = "status", !.sink = Append(@,
                  SetHeaderOp("HandleError", "Content-Type", "text/html; charset=utf-8"))])

\* w.WriteHeader(http.StatusInternalServerError)
WriteHeader(r) ==
    /\ reqs[r].pc = "status"
    /\ Upd(r, [reqs[r] EXCEPT !.pc = "render",
                              !.sink = Append(@, WriteHeaderOp("HandleError", 500))])

\* eh.tpl.ExecuteTemplate(w, execTemplate, data) renders the page
TemplateRenders(r) ==
    LET q == reqs[r] IN
    /\ q.pc = "render"
    /\ Upd(r, [q EXCEPT !.pc = "done", !.tplCalls = @ + 1,
                        !.sink = Append(@, WriteOp("template", RenderPage(q.data),
                                                   q.data.Frames))])

\* ... or fails, having written nothing or the head of the page
TemplateFails(r) ==
    \E why \in RenderErrors, partial \in BOOLEAN :
        LET q == reqs[r] IN
        /\ q.pc = "render"
        /\ Upd(r, [q EXCEPT !.pc = "fallback", !.tplCalls = @ + 1,
                            !.renderErr = why,
                            !.sink = IF partial
                                     THEN Append(@, WriteOp("template", PageHead, <<>>))
                                     ELSE @])

\* the plain fallback; what Fprintf returns is dropped
Fallback(r) ==
    LET q == reqs[r] IN
    /\ q.pc = "fallback"
    /\ Upd(r, [q EXCEPT !.pc = "done",
                        !.sink = Append(@, WriteOp("fallback",
                                     FallbackText(q.heArg, q.renderErr), <<>>))])

\* the response is sent and the worker takes the next request
Release(r) ==
    /\ reqs[r].pc = "done"
    /\ Upd(r, IdleReq)

Next ==
    \E r \in Reqs :
        \/ Serve(r)
        \/ NextWrites(r)
        \/ NextReturns(r)
        \/ NextPanics(r)
        \/ Recover(r)
        \/ SetHeader(r)
        \/ WriteHeader(r)
        \/ TemplateRenders(r)
        \/ TemplateFails(r)
        \/ Fallback(r)
        \/ Release(r)

Spec == Init /\ [][Next]_vars

-----------------------------------------------------------------------------
(* Claims on recovery, under Spec.                                         *)

Done(r) == reqs[r].pc = "done"
Panicked(r) == reqs[r].panicking
\* the operations on the sink that the wrapped handler did not make
ByRecovery(sink) == {i \in 1..Len(sink) : sink[i].by # "next"}

\* C1 as stated: a request through Middleware whose handler panicked with v
\* ends with the panic stopped, HandleError called once with v, status 500
\* and the text of v in the body.
C1_PanicStated ==
    \A r \in Reqs :
        (Done(r) /\ Panicked(r) /\ reqs[r].entry = "Middleware") =>
            /\ ~reqs[r].escaped
            /\ reqs[r].heCalls = 1
            /\ reqs[r].heArg = reqs[r].payload
            /\ Code(reqs[r].sink) = 500
            /\ Contains(Body(reqs[r].sink), Sprint(reqs[r].payload))

\* C1 witness: a handler under Middleware panicked with "boom" in a process
\* whose configuration has a negative MaxFrames: HandleError was called
\* with "boom", wrote nothing, and a panic reached the caller.
C1_Witness ==
    \E r \in Reqs :
        /\ Done(r) /\ Panicked(r) /\ reqs[r].entry = "Middleware"
        /\ reqs[r].payload.text = <<"boom">>
        /\ MakePanics(handler.config.MaxFrames)
        /\ reqs[r].heCalls = 1 /\ reqs[r].heArg = reqs[r].payload
        /\ reqs[r].escaped
        /\ reqs[r].sink = <<>>

\* C2: a request through Middleware or MiddlewareFunc whose handler returns
\* without panicking has had its handler called once, and the recovery has
\* made no operation on the sink: the response is what the handler wrote.
C2_NoPanic ==
    \A r \in Reqs :
        LET q == reqs[r] IN
        (/\ q.pc \in {"deferred", "done"} /\ ~Panicked(r)
         /\ q.entry \in {"Middleware", "MiddlewareFunc"}) =>
            /\ q.called = 1
            /\ q.heCalls = 0
            /\ ByRecovery(q.sink) = {}
            /\ q.sink \in {<<>>, <<WriteHeaderOp("next", 200),
                                   WriteOp("next", <<"ok">>, <<>>)>>}
            /\ Done(r) => ~q.escaped

\* C2 witness: a handler that wrote its response and returned, its request
\* finished with exactly that response.
C2_Witness ==
    \E r \in Reqs :
        /\ Done(r) /\ ~Panicked(r) /\ reqs[r].entry = "MiddlewareFunc"
        /\ Len(reqs[r].sink) = 2
        /\ Code(reqs[r].sink) = 200

\* what two requests must share to count as the same behaviour of the
\* handler and of the template engine
Behaviour(q) ==
    [panicking |-> q.panicking, payload |-> q.payload,
     wrote     |-> {i \in 1..Len(q.sink) : q.sink[i].by = "next"},
     renderErr |-> q.renderErr,
     partial   |-> Cardinality({i \in 1..Len(q.sink) : q.sink[i].by = "template"})]

\* C3 as stated: two finished requests with the same behaviour, through any
\* two entry points, have the same sequence of operations on their sinks,
\* and neither let the panic escape.
C3_EquivStated ==
    \A r1, r2 \in Reqs :
        (/\ Done(r1) /\ Done(r2)
         /\ Behaviour(reqs[r1]) = Behaviour(reqs[r2])) =>
            /\ reqs[r1].sink = reqs[r2].sink
            /\ ~reqs[r1].escaped /\ ~reqs[r2].escaped

\* C3 witness: the same panic with "boom" through MiddlewareFunc and through
\* a deferred HandlePanic, in a process whose configuration has a negative
\* MaxFrames: both let a panic reach the caller.
C3_Witness ==
    \E r1, r2 \in Reqs :
        /\ Done(r1) /\ Done(r2)
        /\ reqs[r1].entry = "MiddlewareFunc" /\ reqs[r2].entry = "HandlePanic"
        /\ Panicked(r1) /\ reqs[r1].payload.text = <<"boom">>
        /\ Behaviour(reqs[r1]) = Behaviour(reqs[r2])
        /\ MakePanics(handler.config.MaxFrames)
        /\ reqs[r1].escaped /\ reqs[r2].escaped

\* C4: once the template engine has reported a failure, the request ends
\* with a fallback body as the last operation on its sink, which holds the
\* text of the value HandleError was given and the reason of the failure;
\* the template engine was called once, and nothing was raised.
C4_Fallback ==
    \A r \in Reqs :
        LET q == reqs[r] IN
        /\ q.renderErr # <<>> => q.pc \in {"fallback", "done"} /\ q.tplCalls = 1
        /\ (Done(r) /\ q.renderErr # <<>>) =>
            /\ q.sink # <<>>
            /\ LET w == q.sink[Len(q.sink)] IN
               /\ w.op = "Write" /\ w.by = "fallback"
               /\ Contains(w.text, Sprint(q.heArg))
               /\ Contains(w.text, q.renderErr)
            /\ Cardinality({i \in 1..Len(q.sink) : q.sink[i].by = "fallback"}) = 1
            /\ ~q.escaped

\* C4 witness: a rendering that failed after the head of the page was
\* written, its request finished with the fallback for "a<b".
C4_Witness ==
    \E r \in Reqs :
        /\ Done(r) /\ reqs[r].renderErr # <<>>
        /\ reqs[r].heArg.text = <<"a", "<", "b">>
        /\ \E i \in 1..Len(reqs[r].sink) : reqs[r].sink[i].by = "template"
        /\ Contains(Body(reqs[r].sink), <<"a", "<", "b">>)
        /\ Contains(Body(reqs[r].sink), reqs[r].renderErr)

\* the operations on a sink that the wrapped handler did not make, in order
RecoveryOps(sink) == SelectSeq(sink, LAMBDA o : o.by # "next")

\* C12 as stated: the operations of a HandleError call on the sink are, in
\* this order, the Content-Type header, the status 500 written once, and
\* then only body bytes; a finished call has made the first two.
C12_OrderStated ==
    \A r \in Reqs :
        LET ops == RecoveryOps(reqs[r].sink) IN
        /\ \A i \in 1..Len(ops) :
               /\ ops[i].op = "Header.Set" =>
                      i = 1 /\ ops[i].key = "Content-Type"
                            /\ ops[i].val = "text/html; charset=utf-8"
               /\ ops[i].op = "WriteHeader" => i = 2 /\ ops[i].code = 500
               /\ ops[i].op = "Write" => i > 2
        /\ (Done(r) /\ reqs[r].heCalls = 1) =>
               /\ Len(ops) >= 2
               /\ ops[1].op = "Header.Set" /\ ops[2].op = "WriteHeader"

\* C12 witness: a HandleError call that ended in the panic of make, having
\* made no operation on the sink: no header, no status.
C12_Witness ==
    \E r \in Reqs :
        /\ Done(r) /\ reqs[r].heCalls = 1
        /\ MakePanics(handler.config.MaxFrames)
        /\ RecoveryOps(reqs[r].sink) = <<>>
        /\ reqs[r].escaped

\* what the claim C16 says of one finished request
Served(r) ==
    LET q == reqs[r] IN
    /\ q.panicking =>
           /\ q.heCalls = 1
           /\ Code(q.sink) = 500
           /\ Contains(Body(q.sink), Sprint(q.payload))
    /\ ~q.panicking => q.heCalls = 0 /\ ByRecovery(q.sink) = {}

\* C16 as stated: in every interleaving each finished request whose handler
\* panicked had one HandleError call, status 500 and its own panic text in
\* its body, each one whose handler returned is untouched by recovery; a
\* step changes one request only and never the handler.
C16_IsolationStated ==
    /\ [](\A r \in Reqs : Done(r) => Served(r))
    /\ [][/\ handler' = handler
          /\ \A r1, r2 \in Reqs :
                 r1 # r2 => (reqs'[r1] = reqs[r1] \/ reqs'[r2] = reqs[r2])]_vars

\* C16 witness: two requests in flight on a handler with a negative
\* MaxFrames; the one that panicked got no response and a panic left its
\* middleware, the other one returned and has the response it wrote.
C16_Witness ==
    \E r1, r2 \in Reqs :
        /\ r1 # r2 /\ Done(r1) /\ Done(r2)
        /\ MakePanics(handler.config.MaxFrames)
        /\ Panicked(r1) /\ reqs[r1].payload.kind = "string"
        /\ reqs[r1].heCalls = 1 /\ reqs[r1].escaped /\ reqs[r1].sink = <<>>
        /\ ~Panicked(r2) /\ Code(reqs[r2].sink) = 200 /\ Len(reqs[r2].sink) = 2

-----------------------------------------------------------------------------
(* Template helpers (xerr.go, templateFuncs).                              *)

\* unicode.IsSpace, on the tokens of the model
IsSpace(c) == c \in {" ", "\t", "\n", "\r"}

\* strings.TrimSpace
RECURSIVE TrimLeft(_)
TrimLeft(s) == IF s # <<>> /\ IsSpace(Head(s)) THEN TrimLeft(Tail(s)) ELSE s
RECURSIVE TrimRight(_)
TrimRight(s) ==
    IF s # <<>> /\ IsSpace(s[Len(s)]) THEN TrimRight(SubSeq(s, 1, Len(s) - 1)) ELSE s
TrimSpace(s) == TrimRight(TrimLeft(s))

\* strings.HasPrefix
HasPrefix(s, prefix) ==
    Len(s) >= Len(prefix) /\ SubSeq(s, 1, Len(prefix)) = prefix

\* strings.SplitN(s, "|", 2): s itself when it has no "|", else what is
\* before the first "|" and what is after it
SplitN2(s) ==
    IF \A i \in 1..Len(s) : s[i] # "|"
    THEN <<s>>
    ELSE LET i == CHOOSE k \in 1..Len(s) :
                      s[k] = "|" /\ \A j \in 1..(k - 1) : s[j] # "|"
         IN  <<SubSeq(s, 1, i - 1), SubSeq(s, i + 1, Len(s))>>

\* a parseCodeLine that cuts the number off at the last "|"
parseCodeLine_LastBar(line) ==
    LET hl   == HasPrefix(line, <<">", ">">>)
        rest == IF hl THEN SubSeq(line, 3, Len(line)) ELSE line
        bars == {k \in 1..Len(rest) : rest[k] = "|"}
        i    == CHOOSE k \in bars : \A j \in bars : j <= k
    IN  IF TrimSpace(line) = <<>>
        THEN [number |-> <<>>, content |-> <<>>, highlight |-> "false"]
        ELSE [number    |-> IF bars = {} THEN <<>> ELSE TrimSpace(SubSeq(rest, 1, i - 1)),
              content   |-> IF bars = {} THEN <<>> ELSE SubSeq(rest, i + 1, Len(rest)),
              highlight |-> IF hl THEN "true" ELSE "false"]

\* templateFuncs["parseCodeLine"]
parseCodeLine(line) ==
    LET result == [number |-> <<>>, content |-> <<>>, highlight |-> "false"]
        hl     == HasPrefix(line, <<">", ">">>)
        parts  == SplitN2(IF hl THEN SubSeq(line, 3, Len(line)) ELSE line)
        marked == [result EXCEPT !.highlight = IF hl THEN "true" ELSE "false"]
    IN  IF TrimSpace(line) = <<>> THEN result
        ELSE IF Len(parts) = 2
             THEN [marked EXCEPT !.number = TrimSpace(parts[1]), !.content = parts[2]]
             ELSE marked

-----------------------------------------------------------------------------
(* The snippet helpers as a state machine: SpecSnippet.                    *)

\* the files and lines codeSnippet is asked for
SnippetFiles ==
    {AppRoot \o <<f>> : f \in {"main.go", "long.go", "empty.go", "gone.go"}}
SnippetLines == (-1)..(LongLen + 2)

\* the lines handed to parseCodeLine
LineTokens == {">", " ", "|", "1", "x"}
ParseInputs == UNION {[1..n -> LineTokens] : n \in 0..MaxLine}

\* the lines of a snippet, as the template takes it apart: split at "\n",
\* the empty piece after the last "\n" left out
Emitted(out) == LET pieces == Split(out) IN SubSeq(pieces, 1, Len(pieces) - 1)

\* the calls of the helpers a run may start with: pc is "call" before the
\* helper runs and "return" after
SnippetCalls ==
    [op : {"codeSnippet"}, pc : {"call"}, show : BOOLEAN, file : SnippetFiles,
     line : SnippetLines]
ParseCalls == [op : {"parseCodeLine"}, pc : {"call"}, line : ParseInputs]

InitSnippet ==
    /\ heap = <<>>
    /\ created = <<>>
    /\ slotX = 0
    /\ slotM = 0
    /\ last = NoCall
    /\ handler = NewErrorHandler(FALSE, DefaultConfig, ErrEnv)
    /\ reqs = [r \in Reqs |-> IdleReq]
    /\ call \in SnippetCalls \cup ParseCalls

\* snippet := eh.codeSnippet(file, line), eh with ShowSourceCode = show
DoCodeSnippet ==
    LET config == [DefaultConfig EXCEPT !.ShowSourceCode = call.show] IN
    /\ call.op = "codeSnippet" /\ call.pc = "call"
    /\ call' = [op |-> "codeSnippet", pc |-> "return", show |-> call.show,
                file |-> call.file, line |-> call.line,
                reads |-> SnippetReads(config, call.file, call.line),
                out |-> codeSnippet(config, call.file, call.line)]
    /\ UNCHANGED <<errVars, httpVars>>

\* the template parses one line of the snippet it was given: the k-th, which
\* the loop of codeSnippet wrote for i+1 and lines[i]
DoParseEmitted ==
    /\ call.op = "codeSnippet" /\ call.pc = "return"
    /\ call.show /\ ReadFile(call.file).ok
    /\ \E k \in 1..Len(Emitted(call.out)) :
           LET i == Max(call.line - SnippetBefore, 0) + (k - 1) IN
           call' = [op |-> "parseEmitted", pc |-> "return",
                    file |-> call.file, line |-> call.line,
                    number |-> i + 1,
                    text |-> Split(ReadFile(call.file).data)[i + 1],
                    emitted |-> Emitted(call.out)[k],
                    parsed |-> parseCodeLine(Emitted(call.out)[k])]
    /\ UNCHANGED <<errVars, httpVars>>

\* parseCodeLine(line) on any line
DoParseCodeLine ==
    /\ call.op = "parseCodeLine" /\ call.pc = "call"
    /\ call' = [op |-> "parseCodeLine", pc |-> "return", line |-> call.line,
                parsed |-> parseCodeLine(call.line)]
    /\ UNCHANGED <<errVars, httpVars>>

NextSnippet == DoCodeSnippet \/ DoParseEmitted \/ DoParseCodeLine

SpecSnippet == InitSnippet /\ [][NextSnippet]_vars

\* a call of codeSnippet that has returned
SnippetReturned == call.op = "codeSnippet" /\ call.pc = "return"

\* C11: codeSnippet with ShowSourceCode off returns "Source code display
\* disabled" for every file and line and reads no file; with
\* ShowSourceCode on and a file that cannot be read it returns "Could not
\* read source file"; every call returns a text.
C11_Snippet ==
    SnippetReturned =>
        /\ ~call.show => call.out = MsgDisabled /\ call.reads = <<>>
        /\ (call.show /\ ~ReadFile(call.file).ok) => call.out = MsgUnreadable
        /\ call.out \in Seq(STRING)
        /\ call.show => (call.out # MsgDisabled)
        /\ (call.show /\ ReadFile(call.file).ok) => call.out # MsgUnreadable

\* C11 witness: a call with ShowSourceCode off on a file that is on disk,
\* answered without a read.
C11_Witness ==
    /\ SnippetReturned
    /\ ~call.show /\ ReadFile(call.file).ok /\ call.line = 2
    /\ call.out = MsgDisabled /\ call.reads = <<>>

-----------------------------------------------------------------------------
(* stackFrames as a state machine: SpecFrames.                             *)

\* the configurations stackFrames runs under
FrameConfigs ==
    [ShowSourceCode : {FALSE}, MaxFrames : {-1, 0, 1, 2, 3, 50},
     SkipFrames : {0, 2, 3}]
FrameEnvs == {env \in Envs : ~env.panicnil}

\* the locations a call stack is made of: application code, the runtime,
\* one the runtime has no file for, and xerr's own
FramePcs ==
    {"main.handler", "main.doAction", "runtime.gopanic", "cgo", "xerr.HandlePanic"}

\* the call stacks stackFrames is called on, innermost first: the capture,
\* stackFrames, HandleError, and HandleError's callers
FrameStacks ==
    {<<"runtime.Callers", "xerr.stackFrames", "xerr.HandleError">> \o below :
        below \in UNION {[1..n -> FramePcs] : n \in 0..MaxDepth}}

FrameCalls ==
    [op : {"stackFrames"}, pc : {"call"}, config : FrameConfigs,
     env : FrameEnvs, stack : FrameStacks]

InitFrames ==
    /\ heap = <<>>
    /\ created = <<>>
    /\ slotX = 0
    /\ slotM = 0
    /\ last = NoCall
    /\ handler = NewErrorHandler(FALSE, DefaultConfig, ErrEnv)
    /\ reqs = [r \in Reqs |-> IdleReq]
    /\ call \in FrameCalls

\* the make of stackFrames panics: the call does not return
DoMakePanics ==
    /\ call.op = "stackFrames" /\ call.pc = "call"
    /\ MakePanics(call.config.MaxFrames)
    /\ call' = [call EXCEPT !.pc = "panic"]
    /\ UNCHANGED <<errVars, httpVars>>

\* frames := eh.stackFrames(); pcs is what runtime.Callers filled in
DoStackFrames ==
    /\ call.op = "stackFrames" /\ call.pc = "call"
    /\ ~MakePanics(call.config.MaxFrames)
    /\ call' = [op |-> "stackFrames", pc |-> "return", config |-> call.config,
                env |-> call.env, stack |-> call.stack,
                pcs |-> Callers(call.config.SkipFrames + 1,
                                call.config.MaxFrames, call.stack),
                frames |-> stackFrames(call.config, call.env, call.stack)]
    /\ UNCHANGED <<errVars, httpVars>>

NextFrames == DoMakePanics \/ DoStackFrames

SpecFrames == InitFrames /\ [][NextFrames]_vars

\* a call of stackFrames that has returned
FramesReturned == call.op = "stackFrames" /\ call.pc = "return"

\* the locations of a stack that the filter keeps, resolved, in order
Visible(fr) == fr.File # <<>> /\ ~Filtered(fr.File)
KeptOf(env, pcs) ==
    SelectSeq([i \in 1..Len(pcs) |-> Resolve(env, pcs[i])], Visible)

\* a frame without its snippet
Location(f) == [Function |-> f.Function, File |-> f.File, Line |-> f.Line]

\* C13: stackFrames returns no frame of a file under "/go/src/" or
\* "/pkg/mod/", and the frames it returns are the kept locations of the
\* captured stack (what runtime.Callers filled in), all of them up to
\* MaxFrames, in the captured order: a dropped location ends nothing.
C13_Filter ==
    FramesReturned =>
        LET kept == KeptOf(call.env, call.pcs) IN
        /\ \A i \in 1..Len(call.frames) :
               /\ ~Contains(PathText(call.frames[i].File), <<"/", "go", "/", "src", "/">>)
               /\ ~Contains(PathText(call.frames[i].File), <<"/", "pkg", "/", "mod", "/">>)
        /\ [i \in 1..Len(call.frames) |-> Location(call.frames[i])]
               = SubSeq(kept, 1, Min(Len(kept), call.config.MaxFrames))

\* C13 witness: a captured stack with a kept location, then a dropped one,
\* then a kept one, returned as the two kept ones.
C13_Witness ==
    /\ FramesReturned
    /\ call.pcs = <<"main.handler", "runtime.gopanic", "main.doAction">>
    /\ Len(call.frames) = 2
    /\ call.frames[1].Function = "main.handler"
    /\ call.frames[2].Function = "main.doAction"

\* the kept locations of the call stack beyond the skipped ones
BeyondSkipped(c) ==
    KeptOf(c.env, SubSeq(c.stack, c.config.SkipFrames + 2, Len(c.stack)))

\* C14 as stated: a call of stackFrames returns, and the number of frames it
\* returns is the smaller of MaxFrames and the number of kept locations on
\* the call stack beyond the skipped ones, never more than MaxFrames.
C14_CapStated ==
    (call.op = "stackFrames" /\ call.pc # "call") =>
        /\ call.pc = "return"
        /\ Len(call.frames) = Min(call.config.MaxFrames, Len(BeyondSkipped(call)))
        /\ Len(call.frames) <= call.config.MaxFrames

\* C14 witness: MaxFrames = 3 on a stack with two runtime locations above
\* two of the application: the buffer of three holds the two dropped ones
\* and one kept, and one frame is returned where two fit under the cap.
C14_Witness ==
    /\ FramesReturned
    /\ call.config.MaxFrames = 3 /\ call.config.SkipFrames = 2
    /\ call.pcs = <<"runtime.gopanic", "runtime.gopanic", "main.handler">>
    /\ Len(BeyondSkipped(call)) = 2
    /\ Len(call.frames) = 1

-----------------------------------------------------------------------------
(* Claims on the stack snapshot of New, under SpecErr.                     *)

\* the locations of a call site that have a file, resolved, in call order
SiteLocations(env, site) ==
    SelectSeq([i \in 1..Len(site) |-> Resolve(env, site[i])],
              LAMBDA fr : fr.File # <<>>)

\* C17: StackTrace returns one frame per location of the call site of New
\* that has a file, innermost first: the caller of New first, then its
\* callers in call order, none of runtime.Callers or New itself, and every
\* Snippet empty when showSource is false.
C17_Snapshot ==
    last.op = "StackTrace" =>
        \E site \in CallSites :
            /\ [i \in 1..Len(last.frames) |-> Location(last.frames[i])]
                   = SiteLocations(handler.env, site)
            /\ last.frames[1].Function = site[1]
            /\ \A i \in 1..Len(last.frames) :
                   /\ last.frames[i].Function \notin {"runtime.Callers", "xerr.New"}
                   /\ ~last.show => last.frames[i].Snippet = <<>>

\* C17 witness: a trace without source of an error made in main.doAction,
\* called by a location without a file, called by main.worker: three frames,
\* main.doAction first.
C17_Witness ==
    /\ last.op = "StackTrace" /\ ~last.show
    /\ Len(last.frames) = 3
    /\ last.frames[1].Function = "main.doAction"
    /\ last.frames[2].Function = "main.worker"
    /\ last.frames[3].Function = "runtime.goexit"
    /\ \A i \in 1..3 : last.frames[i].Snippet = <<>>

-----------------------------------------------------------------------------
(* Claims on the snippet window, under SpecSnippet.                        *)

\* a call of codeSnippet with source display on and a readable file
WindowReturned == SnippetReturned /\ call.show /\ ReadFile(call.file).ok

\* the pieces of a file between its newlines, and its lines: a newline at
\* the end of the file ends the last line and starts no further one
Pieces(file) == Split(ReadFile(file).data)
NumLines(file) ==
    IF Pieces(file)[Len(Pieces(file))] = <<>>
    THEN Len(Pieces(file)) - 1
    ELSE Len(Pieces(file))

\* line k of a file as a snippet for target L shows it: the marker, the
\* number right-aligned in four columns, " | " and the text
Shown(file, k, L) ==
    (IF k = L THEN <<">", ">", " ">> ELSE <<" ", " ", " ">>)
        \o Spaces(4 - Len(Itoa(k))) \o Itoa(k) \o <<" ", "|", " ">> \o Pieces(file)[k]

\* lines from..to of a file as a snippet for target L shows them
ShownRange(file, from, to, L) ==
    [j \in 1..Max(to - from + 1, 0) |-> Shown(file, from + j - 1, L)]

\* C15 as stated: for a target line L of a readable file of N lines,
\* 1 <= L <= N, the snippet is lines max(1, L-15) .. min(N, L+20), each
\* with its number, line L alone with the ">>" marker.
C15_WindowStated ==
    (WindowReturned /\ 1 <= call.line /\ call.line <= NumLines(call.file)) =>
        Emitted(call.out) =
            ShownRange(call.file, Max(1, call.line - SnippetBefore),
                       Min(NumLines(call.file), call.line + SnippetAfter), call.line)

\* C15, amended: for a readable file whose content splits at newlines into
\* M pieces (one more than its lines when it ends with a newline, the last
\* piece empty) and any target line L, the snippet is pieces
\* max(1, L-14) .. min(M, L+20), each with its number; for 1 <= L <= M one
\* line, the one numbered L, has the ">>" marker and all others the blank
\* one.
C15_Window ==
    WindowReturned =>
        LET M     == Len(Pieces(call.file))
            first == Max(1, call.line - (SnippetBefore - 1))
            lines == Emitted(call.out)
        IN  /\ lines = ShownRange(call.file, first,
                                  Min(M, call.line + SnippetAfter), call.line)
            /\ (1 <= call.line /\ call.line <= M) =>
                   /\ HasPrefix(lines[call.line - first + 1], <<">", ">", " ">>)
                   /\ \A j \in 1..Len(lines) :
                          j # call.line - first + 1 =>
                              HasPrefix(lines[j], <<" ", " ", " ">>)

\* C15 witness: line 30 of the forty lines of long.go, which ends with a
\* newline: the snippet runs from line 16 to an empty line 41.
C15_Witness ==
    /\ WindowReturned
    /\ call.file = AppRoot \o <<"long.go">> /\ call.line = 30
    /\ NumLines(call.file) = LongLen
    /\ Len(Emitted(call.out)) = LongLen + 1 - 15
    /\ Emitted(call.out)[1] = Shown(call.file, 16, 30)
    /\ Emitted(call.out)[LongLen + 1 - 15] = Shown(call.file, LongLen + 1, 30)

-----------------------------------------------------------------------------
(* Claims on parseCodeLine, under SpecSnippet.                             *)

\* a call of parseCodeLine on a line of its own that has returned
ParseReturned == call.op = "parseCodeLine" /\ call.pc = "return"

Blank(s) == \A i \in 1..Len(s) : s[i] \in {" ", "\t", "\n", "\r"}

\* s from its first to its last token that is not white space
Trimmed(s) ==
    LET solid == {i \in 1..Len(s) : s[i] \notin {" ", "\t", "\n", "\r"}} IN
    IF solid = {} THEN <<>>
    ELSE SubSeq(s, CHOOSE i \in solid : \A j \in solid : i <= j,
                   CHOOSE i \in solid : \A j \in solid : j <= i)

Marked(s) == Len(s) >= 2 /\ s[1] = ">" /\ s[2] = ">"
Unmarked(s) == IF Marked(s) THEN SubSeq(s, 3, Len(s)) ELSE s
Bars(s) == {i \in 1..Len(s) : s[i] = "|"}
FirstBar(s) == CHOOSE i \in Bars(s) : \A j \in Bars(s) : i <= j

\* C18: parseCodeLine gives a blank line no number and no content; any
\* other line has highlight true exactly when it starts with ">>" and,
\* split at the first "|" after that marker is taken off, the trimmed text
\* before it as number and all that follows it, unchanged, as content (a
\* line with no "|" at all has neither).
C18_Parse ==
    ParseReturned =>
        LET rest == Unmarked(call.line) IN
        /\ Blank(call.line) =>
               call.parsed.number = <<>> /\ call.parsed.content = <<>>
        /\ ~Blank(call.line) =>
               /\ call.parsed.highlight = "true" <=> Marked(call.line)
               /\ call.parsed.highlight \in {"true", "false"}
               /\ Bars(rest) # {} =>
                      /\ call.parsed.number = Trimmed(SubSeq(rest, 1, FirstBar(rest) - 1))
                      /\ call.parsed.content = SubSeq(rest, FirstBar(rest) + 1, Len(rest))
               /\ Bars(rest) = {} =>
                      call.parsed.number = <<>> /\ call.parsed.content = <<>>

\* C18 witness: ">>1||" parsed as the highlighted line 1 with content "|".
C18_Witness ==
    /\ ParseReturned
    /\ call.line = <<">", ">", "1", "|", "|">>
    /\ call.parsed = [number |-> <<"1">>, content |-> <<"|">>, highlight |-> "true"]

\* C19: parseCodeLine on the line that codeSnippet wrote for source line i
\* with text s gives the decimal text of i as number, a space and s as
\* content, and highlight true exactly when i is the target line.
C19_RoundTrip ==
    call.op = "parseEmitted" =>
        /\ call.parsed.number = Itoa(call.number)
        /\ call.parsed.content = <<" ">> \o call.text
        /\ call.parsed.highlight = "true" <=> call.number = call.line
        /\ call.parsed.highlight \in {"true", "false"}

\* C19 witness: line 7 of long.go, "x|y|", as the target line of its
\* snippet, parsed back.
C19_Witness ==
    /\ call.op = "parseEmitted"
    /\ call.file = AppRoot \o <<"long.go">> /\ call.line = 7 /\ call.number = 7
    /\ call.text = <<"x", "|", "y", "|">>
    /\ call.parsed = [number |-> <<"7">>, content |-> <<" ", "x", "|", "y", "|">>,
                      highlight |-> "true"]

====
